---- MODULE Spec2Model ----
(***************************************************************************)
(* httpx-catcher: AsyncCatcherTransport (src/src/httpx_catcher/_catcher.py) *)
(* over the sqlite-backed dbm table (src/src/httpx_catcher/_dbm_sqlite.py). *)
(*                                                                         *)
(* One sqlite table `db` is shared by the transports opened on the same    *)
(* path.  Each transport owns an in-memory key index `_keys`, a deque      *)
(* `_waiting_flush` and the coroutines it has suspended at an await.       *)
(* Synchronous stretches of the code (everything between two awaits) are   *)
(* single actions; every await is a separate step.                         *)
(***************************************************************************)
EXTENDS Integers, Sequences, FiniteSets, TLC

\* Number of requests handed to handle_async_request in one run.
MaxReq == 2

\* ------------------------------------------------------------------ data

\* The transports of the run (two init_transport contexts on one db_path).
Inst == {"a", "b"}

ModeType == {"store", "use", "hybrid", "passive"}

\* flush_limit = None
None == -1

\* The settings of (flush_limit, flush_immediately) exercised: the defaults
\* of __init__, a threshold of 2, and flush_immediately set by the caller.
FlushConfigs == { <<None, FALSE>>, <<2, FALSE>>, <<None, TRUE>> }

\* Request bodies of 0, 5 and 21 bytes.
Body0 == ""
Body5 == "hello"
Body21 == "xxxxxxxxxxxxxxxxxxxxx"

\* ContentKey = (method, url, content)
ContentKeys ==
    { <<"GET", "/a", Body0>>, <<"POST", "/a", Body5>>, <<"POST", "/a", Body21>> }

\* The requests sent through a transport that may call the network: one
\* without a body and one with the 21-byte body.  A transport in "use" mode
\* answers at once and is given every request of ContentKeys.
FetchedKeys == { <<"GET", "/a", Body0>>, <<"POST", "/a", Body21>> }

\* Response payloads the remote end may answer with.
Contents == {"A", "B"}

\* Object identity: 0 is None, a live httpx.Request carries the number of
\* the call that received it, an object rebuilt by pickle.load is a copy.
NoObj == 0
StoredCopy == -2

NoRequest == [obj |-> NoObj, key |-> << >>]
NoResponse == [content |-> "", request |-> NoObj, read |-> FALSE]

\* The row of the shelf that holds the pickled key index.
KEYS_ROW == "__keys__"

\* ''.join(random.choices(string.printable, k=30)): 100^30 equally likely
\* names; the draw is modelled as a name not yet in the table.
Names == { "n" \o ToString(j) : j \in 1..(MaxReq + 1) }

generate_random_name(d) == CHOOSE n \in Names : n \notin DOMAIN d

\* method, url and the fully read body of the request; headers and object
\* identity play no part.
generate_content_key(request) == request.key

\* ------------------------------------------------------- shelf and table

EmptyDict == [x \in {} |-> ""]

\* An upsert that keeps the row the key already has (INSERT OR IGNORE).
db_setitem_ignore(d, k, v) ==
    [x \in DOMAIN d \cup {k} |-> IF x \in DOMAIN d THEN d[x] ELSE v]

\* REPLACE INTO table (key, value): insert, or replace the row of that key.
db_setitem(d, k, v) == [x \in DOMAIN d \cup {k} |-> IF x = k THEN v ELSE d[x]]

\* dict item assignment on the in-memory index.
dict_setitem(ks, ck, name) ==
    [x \in DOMAIN ks \cup {ck} |-> IF x = ck THEN name ELSE ks[x]]

\* Shelf.__setitem__ pickles the value.  A (request, response) pair loses
\* the identity of both objects; the body is in the pickle only when it was
\* read (Response._content exists only then).
Pickle(pair) ==
    [kind |-> "pair",
     key |-> pair[1].key,
     content |-> IF pair[2].read THEN pair[2].content ELSE "",
     read |-> pair[2].read,
     map |-> EmptyDict]

PickleDict(ks) ==
    [kind |-> "dict", key |-> << >>, content |-> "", read |-> FALSE, map |-> ks]

\* Shelf.__getitem__ unpickles: fresh objects, equal field by field.
Unpickle(blob) ==
    << [obj |-> StoredCopy, key |-> blob.key],
       [content |-> blob.content, request |-> NoObj, read |-> blob.read] >>

UnpickleDict(blob) == blob.map

\* The cache entries of the table: every row but the key index.
Entries(d) == DOMAIN d \ {KEYS_ROW}

\* ------------------------------------------------------------- variables

VARIABLES
    db,                 \* the sqlite table behind the shelf: key -> pickled value
    pc,                 \* per transport: "none", "open", "closing", "released"
    mode,               \* per transport: self.mode
    flush_limit,        \* per transport: self.flush_limit
    flush_immediately,  \* per transport: self.flush_immediately
    _keys,              \* per transport: self._keys (ContentKey -> shelf key)
    _waiting_flush,     \* per transport: self._waiting_flush
    tasks,              \* handle_async_request calls suspended at an await
    nreq,               \* requests received so far
    closed,             \* per transport: close() has returned once
    flushed,            \* history: ContentKey -> payload of the last pair a flush wrote
    atOpen,             \* history: per transport, `flushed` when it was constructed
    last,               \* history: the operation that completed last
    file,               \* the database file at the path: does it exist, has it the table
    _cx,                \* the _Database object in use: its connection and uri mode
    ref,                \* history: the map the puts and deletes of this handle describe
    kv                  \* history: the operation on the _Database that completed last

vars ==
    << db, pc, mode, flush_limit, flush_immediately, _keys, _waiting_flush,
       tasks, nreq, closed, flushed, atOpen, last, file, _cx, ref, kv >>

\* The state of the _Database layer.  The transport reaches the table
\* through its shelf; of these it changes only `file`, when init_transport
\* opens the path.
store_vars == << file, _cx, ref, kv >>

\* What the operations of _Database never touch.
catcher_vars ==
    << pc, mode, flush_limit, flush_immediately, _keys, _waiting_flush,
       tasks, nreq, closed, flushed, atOpen, last >>

\* The shelf (and the connection under it) of transport i is usable.
ShelfOpen(i) == pc[i] \in {"open", "closing"}

\* No transport is inside the synchronous exit of its init_transport block.
Idle == \A j \in Inst : pc[j] # "closing"

NoOp ==
    [op |-> "none", inst |-> "", request |-> NoRequest, response |-> NoResponse,
     err |-> "none", arg |-> << >>, fetched |-> 0, enq |-> FALSE, ran |-> FALSE,
     batch |-> << >>, warned |-> << >>, info |-> 0, writes |-> 0,
     again |-> FALSE, exc |-> FALSE]

\* ------------------------------------------------------------------ flush

\* The threshold test with > in place of >=.
should_flush_gt(fi, fl, n) == fi \/ (fl # None /\ n > fl)

\* self.flush_immediately or self.flush_limit is not None
\*     and len(self._waiting_flush) >= self.flush_limit
should_flush(fi, fl, n) == fi \/ (fl # None /\ n >= fl)

\* An index that keeps the shelf key it already has for content_key.
flush_index_keepfirst(ks, content_key, shelf_key) ==
    IF content_key \in DOMAIN ks THEN ks ELSE dict_setitem(ks, content_key, shelf_key)

\* The shelf key the index holds for content_key after one loop iteration.
flush_index(ks, content_key, shelf_key) == dict_setitem(ks, content_key, shelf_key)

\* One iteration of the loop of flush on the popped pair: the warning when
\* the content key is already indexed, a new random shelf key, the index
\* entry, the shelf write.  On a closed shelf the write raises ValueError
\* after the index was updated.
flush_pair(d, ks, pair, open) ==
    LET content_key == generate_content_key(pair[1])
        shelf_key == generate_random_name(d)
    IN  [warn |-> content_key \in DOMAIN ks,
         keys |-> flush_index(ks, content_key, shelf_key),
         db |-> IF open THEN db_setitem(d, shelf_key, Pickle(pair)) ELSE d,
         err |-> IF open THEN "none" ELSE "ValueError"]

RECURSIVE flush_loop(_, _, _, _, _, _)
flush_loop(d, ks, q, open, i, warned) ==
    IF q = << >>
    THEN [db |-> d, keys |-> ks, buf |-> q, i |-> i, warned |-> warned,
          err |-> "none", info |-> IF i > 0 THEN 1 ELSE 0, writes |-> i]
    ELSE LET pair == Head(q)
             r == flush_pair(d, ks, pair, open)
             w == IF r.warn THEN Append(warned, generate_content_key(pair[1]))
                  ELSE warned
         IN  IF r.err # "none"
             THEN [db |-> r.db, keys |-> r.keys, buf |-> Tail(q), i |-> i + 1,
                   warned |-> w, err |-> r.err, info |-> 0, writes |-> i]
             ELSE flush_loop(r.db, r.keys, Tail(q), open, i + 1, w)

\* AsyncCatcherTransport.flush on transport i.
flush(i) == flush_loop(db, _keys[i], _waiting_flush[i], ShelfOpen(i), 0, << >>)

\* flush after `pair` was appended to the deque of transport i.
flush_after_append(i, pair) ==
    flush_loop(db, _keys[i], Append(_waiting_flush[i], pair), ShelfOpen(i), 0, << >>)

\* The pairs a flush consumed: what was queued less what is left.
Consumed(q, r) == SubSeq(q, 1, Len(q) - Len(r.buf))

\* The payload of the last pair of `batch` with content key k, else dflt.
RECURSIVE LastContent(_, _, _)
LastContent(batch, k, dflt) ==
    IF batch = << >> THEN dflt
    ELSE LET p == batch[Len(batch)]
         IN  IF p[1].key = k THEN p[2].content
             ELSE LastContent(SubSeq(batch, 1, Len(batch) - 1), k, dflt)

\* History of what flushes have written, after a flush with result r of queue q.
Flushed(q, r) ==
    IF r.err # "none" THEN flushed
    ELSE [k \in ContentKeys |-> LastContent(q, k, flushed[k])]

\* ----------------------------------------------------------- find_request

\* Line 90 unpacks the shelf row into the names `request, response`: the
\* parameter `request` is rebound to the stored request before line 91
\* assigns response._request.
rebound_request(live, stored) == stored

\* AsyncCatcherTransport.find_request on index ks, table d.
find_request(ks, d, open, request) ==
    LET content_key == generate_content_key(request)
    IN  IF content_key \notin DOMAIN ks
        THEN [err |-> "KeyError", arg |-> content_key, response |-> NoResponse]
        ELSE IF ~open
        THEN [err |-> "ValueError", arg |-> << >>, response |-> NoResponse]
        ELSE IF ks[content_key] \notin DOMAIN d
        THEN [err |-> "KeyError", arg |-> <<ks[content_key]>>, response |-> NoResponse]
        ELSE LET stored == Unpickle(d[ks[content_key]])
                 bound == rebound_request(request, stored[1])
             IN  [err |-> "none", arg |-> << >>,
                  response |-> [stored[2] EXCEPT !.request = bound.obj]]

\* A lookup that also searches the deque for a pair queued for the request.
find_request_buffered(i, request) ==
    LET r == find_request(_keys[i], db, ShelfOpen(i), request)
        hits == { n \in 1..Len(_waiting_flush[i]) :
                    _waiting_flush[i][n][1].key = request.key }
    IN  IF r.err = "KeyError" /\ hits # {}
        THEN [err |-> "none", arg |-> << >>,
              response |-> [_waiting_flush[i][CHOOSE n \in hits : TRUE][2]
                               EXCEPT !.request = request.obj]]
        ELSE r

\* self.find_request(request) on transport i: the index and the shelf of
\* the transport, nothing else.
self_find_request(i, request) ==
    find_request(_keys[i], db, ShelfOpen(i), request)

\* ------------------------------------------------- handle_async_request

\* if self.mode == "use": return self.find_request(request)
only_cache(m) == m = "use"

\* if self.mode == "hybrid": with suppress(KeyError): return self.find_request(request)
cache_first(m) == m = "hybrid"

\* A dispatcher that stores in every mode, and one that stores in "store" alone.
stores_always(m) == TRUE
stores_in_store_only(m) == m = "store"

\* if self.mode != "passive": await self.store_requests(request, response)
stores(m) == m # "passive"

\* A call that ran to its return or to an exception without suspending.
Completed(i, request, r) ==
    [NoOp EXCEPT !.op = "handle_async_request", !.inst = i, !.request = request,
                 !.response = r.response, !.err = r.err, !.arg = r.arg]

\* A call that reached an await and has not returned.
Awaiting(i, request, at) ==
    [NoOp EXCEPT !.op = at, !.inst = i, !.request = request]

\* A new coroutine suspended in super().handle_async_request(request).
Suspended(i, request) ==
    [inst |-> i, request |-> request, at |-> "transport", calls |-> 1,
     response |-> NoResponse]

\* handle_async_request up to its first await (or its return).
handle_async_request(i, ck) ==
    /\ Idle
    /\ pc[i] \in {"open", "released"}
    /\ nreq < MaxReq
    /\ nreq' = nreq + 1
    /\ LET request == [obj |-> nreq + 1, key |-> ck]
           r == self_find_request(i, request)
       IN  IF only_cache(mode[i]) \/ (cache_first(mode[i]) /\ r.err # "KeyError")
           THEN /\ last' = Completed(i, request, r)
                /\ tasks' = tasks
           ELSE /\ tasks' = tasks \cup {Suspended(i, request)}
                /\ last' = Awaiting(i, request, "await transport")
    /\ UNCHANGED << db, pc, mode, flush_limit, flush_immediately, _keys,
                    _waiting_flush, closed, flushed, atOpen >>
    /\ UNCHANGED store_vars

\* The transport answers: super().handle_async_request returns a response
\* whose body is still on the wire.  In passive mode it is returned as is.
transport_return(t, c) ==
    /\ Idle
    /\ t \in tasks
    /\ t.at = "transport"
    /\ LET response == [content |-> c, request |-> NoObj, read |-> FALSE]
       IN  IF stores(mode[t.inst])
           THEN /\ tasks' = (tasks \ {t}) \cup
                            {[t EXCEPT !.at = "aread", !.response = response]}
                /\ last' = Awaiting(t.inst, t.request, "await aread")
           ELSE /\ tasks' = tasks \ {t}
                /\ last' = [NoOp EXCEPT !.op = "handle_async_request",
                                        !.inst = t.inst, !.request = t.request,
                                        !.response = response, !.fetched = t.calls]
    /\ UNCHANGED << db, pc, mode, flush_limit, flush_immediately, _keys,
                    _waiting_flush, nreq, closed, flushed, atOpen >>
    /\ UNCHANGED store_vars

\* A dispatcher that sends the request a second time when the transport
\* raised, and gives up after that.
transport_fail_retry(t) ==
    /\ Idle
    /\ t \in tasks
    /\ t.at = "transport"
    /\ IF t.calls < 2
       THEN /\ tasks' = (tasks \ {t}) \cup {[t EXCEPT !.calls = t.calls + 1]}
            /\ last' = [Awaiting(t.inst, t.request, "await transport")
                           EXCEPT !.fetched = t.calls]
       ELSE /\ tasks' = tasks \ {t}
            /\ last' = [NoOp EXCEPT !.op = "handle_async_request", !.inst = t.inst,
                                    !.request = t.request, !.err = "TransportError",
                                    !.fetched = t.calls]
    /\ UNCHANGED << db, pc, mode, flush_limit, flush_immediately, _keys,
                    _waiting_flush, nreq, closed, flushed, atOpen >>
    /\ UNCHANGED store_vars

\* The transport raises: the exception leaves handle_async_request.
transport_fail(t) ==
    /\ Idle
    /\ t \in tasks
    /\ t.at = "transport"
    /\ tasks' = tasks \ {t}
    /\ last' = [NoOp EXCEPT !.op = "handle_async_request", !.inst = t.inst,
                            !.request = t.request, !.err = "TransportError",
                            !.fetched = t.calls]
    /\ UNCHANGED << db, pc, mode, flush_limit, flush_immediately, _keys,
                    _waiting_flush, nreq, closed, flushed, atOpen >>
    /\ UNCHANGED store_vars

\* The caller cancels the call while it is suspended, in the transport or
\* in response.aread(): CancelledError is raised at the await and leaves
\* handle_async_request; the statements after the await do not run.
cancel(t) ==
    /\ Idle
    /\ t \in tasks
    /\ tasks' = tasks \ {t}
    /\ last' = [NoOp EXCEPT !.op = "cancel", !.inst = t.inst,
                            !.request = t.request, !.response = t.response,
                            !.err = "CancelledError", !.fetched = t.calls]
    /\ UNCHANGED << db, pc, mode, flush_limit, flush_immediately, _keys,
                    _waiting_flush, nreq, closed, flushed, atOpen >>
    /\ UNCHANGED store_vars

\* A store_requests that queues the response without reading its body.
aread_skipped(response) == response

\* await response.aread() ran to completion: the body is in the response.
aread(response) == [response EXCEPT !.read = TRUE]

\* store_requests after `await response.aread()`: append, flush when due,
\* then handle_async_request returns the response.
store_requests(t) ==
    /\ Idle
    /\ t \in tasks
    /\ t.at = "aread"
    /\ tasks' = tasks \ {t}
    /\ LET i == t.inst
           response == aread(t.response)
           pair == <<t.request, response>>
           q == Append(_waiting_flush[i], pair)
           r == flush_after_append(i, pair)
           done == [NoOp EXCEPT !.op = "handle_async_request", !.inst = i,
                                !.request = t.request, !.fetched = t.calls,
                                !.enq = TRUE]
       IN  IF should_flush(flush_immediately[i], flush_limit[i], Len(q))
           THEN /\ db' = r.db
                /\ _keys' = [_keys EXCEPT ![i] = r.keys]
                /\ _waiting_flush' = [_waiting_flush EXCEPT ![i] = r.buf]
                /\ flushed' = Flushed(q, r)
                /\ last' = [done EXCEPT !.ran = TRUE, !.batch = Consumed(q, r),
                                        !.warned = r.warned, !.info = r.info,
                                        !.writes = r.writes, !.err = r.err,
                                        !.response = IF r.err = "none" THEN response
                                                     ELSE NoResponse]
           ELSE /\ _waiting_flush' = [_waiting_flush EXCEPT ![i] = q]
                /\ last' = [done EXCEPT !.response = response]
                /\ UNCHANGED << db, _keys, flushed >>
    /\ UNCHANGED << pc, mode, flush_limit, flush_immediately, nreq, closed,
                    atOpen >>
    /\ UNCHANGED store_vars

\* ------------------------------------------------------ flush and close

\* An explicit call of transport.flush().
flush_call(i) ==
    /\ Idle
    /\ pc[i] \in {"open", "released"}
    /\ LET q == _waiting_flush[i]
           r == flush(i)
       IN  /\ db' = r.db
           /\ _keys' = [_keys EXCEPT ![i] = r.keys]
           /\ _waiting_flush' = [_waiting_flush EXCEPT ![i] = r.buf]
           /\ flushed' = Flushed(q, r)
           /\ last' = [NoOp EXCEPT !.op = "flush", !.inst = i, !.ran = TRUE,
                                   !.batch = Consumed(q, r), !.warned = r.warned,
                                   !.info = r.info, !.writes = r.writes,
                                   !.err = r.err]
    /\ UNCHANGED << pc, mode, flush_limit, flush_immediately, tasks, nreq,
                    closed, atOpen >>
    /\ UNCHANGED store_vars

\* A close() that does not flush.
close_noflush(i) ==
    [db |-> db, keys |-> _keys[i], buf |-> _waiting_flush[i], i |-> 0,
     warned |-> << >>, err |-> "none", info |-> 0, writes |-> 0]

\* The flush that close() starts with (line 46).
close_flush(i) == flush(i)

\* AsyncCatcherTransport.close: self.flush(), then
\* self.shelf["__keys__"] = self._keys.  An exception of flush, or of the
\* write on a closed shelf, leaves close.
close(i) ==
    LET r == close_flush(i)
    IN  IF r.err # "none" THEN r
        ELSE IF ~ShelfOpen(i) THEN [r EXCEPT !.err = "ValueError"]
        ELSE [r EXCEPT !.db = db_setitem(r.db, KEYS_ROW, PickleDict(r.keys)),
                       !.writes = r.writes + 1]

\* The state after close() of transport i with result r, recorded as `op`.
Closed(i, r, op, exc) ==
    /\ db' = r.db
    /\ _keys' = [_keys EXCEPT ![i] = r.keys]
    /\ _waiting_flush' = [_waiting_flush EXCEPT ![i] = r.buf]
    /\ flushed' = Flushed(_waiting_flush[i], r)
    /\ closed' = [closed EXCEPT ![i] = closed[i] \/ r.err = "none"]
    /\ last' = [NoOp EXCEPT !.op = op, !.inst = i, !.ran = TRUE,
                            !.batch = Consumed(_waiting_flush[i], r),
                            !.warned = r.warned, !.info = r.info,
                            !.writes = r.writes, !.err = r.err,
                            !.again = closed[i], !.exc = exc]

\* An explicit call of transport.close(), inside the block or after it.
close_call(i) ==
    /\ Idle
    /\ pc[i] \in {"open", "released"}
    /\ Closed(i, close(i), "close", FALSE)
    /\ UNCHANGED << pc, mode, flush_limit, flush_immediately, tasks, nreq,
                    atOpen >>
    /\ UNCHANGED store_vars

\* ------------------------------------------------------------ _Database

\* The flags of open: the four of the match statement and one it does not
\* list.
Flags == {"r", "w", "c", "n", "x"}

\* Table names, as the characters they are made of: the default "Dict",
\* "1t" and "sqlite_t".
Dict == <<"D", "i", "c", "t">>
SqlitePrefix == <<"s", "q", "l", "i", "t", "e", "_">>
TableNames == { Dict, <<"1", "t">>, SqlitePrefix \o <<"t">> }

\* The characters an identifier may start with and go on with.
XID_Start == {"D", "i", "c", "t", "s", "q", "l", "e", "_"}
XID_Continue == XID_Start \cup {"1"}

\* str.isidentifier and str.startswith
isidentifier(table) ==
    /\ Len(table) > 0
    /\ table[1] \in XID_Start
    /\ \A n \in 1..Len(table) : table[n] \in XID_Continue

startswith(table, prefix) ==
    /\ Len(table) >= Len(prefix)
    /\ SubSeq(table, 1, Len(prefix)) = prefix

\* No file at the path.
NoFile == [exists |-> FALSE, table |-> FALSE]

\* The disk is the file and the rows of its table.
\* Path(path).touch(exist_ok=True): an empty file when there was none.
touch(disk) ==
    IF disk.file.exists THEN disk
    ELSE [file |-> [exists |-> TRUE, table |-> FALSE], db |-> EmptyDict]

\* Path(path).unlink(missing_ok=True)
unlink(disk) == [file |-> NoFile, db |-> EmptyDict]

\* case "n": unlink, then touch.
case_n(disk) == touch(unlink(disk))

\* A case "c" that discards the file it finds, as case "n" does.
case_c_discards(disk) == touch(unlink(disk))

\* case "c": touch.
case_c(disk) == touch(disk)

\* The mode of the uri for a flag the match statement lists.
uri_mode(flag) ==
    CASE flag = "r" -> "ro"
      [] flag = "w" -> "rw"
      [] OTHER -> "rwc"

\* sqlite3.connect(uri): mode=ro and mode=rw need the file to exist.
connect(disk, m) == disk.file.exists \/ m = "rwc"

\* _build_queries: the two tests of the table name.
_build_queries(table) ==
    IF ~isidentifier(table) THEN "ValueError"
    ELSE IF startswith(table, SqlitePrefix) THEN "ValueError"
    ELSE "none"

\* CREATE TABLE IF NOT EXISTS
_build_table(disk) == [disk EXCEPT !.file.table = TRUE]

\* _Database.__init__: the match on the flag (with its touch and unlink),
\* the connection, the queries, the table.  The journal_mode pragma changes
\* no row and is left out.
_Database_init(disk, flag, table) ==
    IF flag \notin {"r", "w", "c", "n"}
    THEN [disk |-> disk, err |-> "ValueError", mode |-> ""]
    ELSE LET m == uri_mode(flag)
             d1 == IF flag = "c" THEN case_c(disk)
                   ELSE IF flag = "n" THEN case_n(disk)
                   ELSE disk
         IN  IF ~connect(d1, m)
             THEN [disk |-> d1, err |-> "error", mode |-> ""]
             ELSE IF _build_queries(table) # "none"
             THEN [disk |-> d1, err |-> _build_queries(table), mode |-> ""]
             ELSE [disk |-> IF m = "rwc" THEN _build_table(d1) ELSE d1,
                   err |-> "none", mode |-> m]

\* _execute: error when the object is closed, and sqlite's errors wrapped
\* in error: no such table, or a write through a read-only connection.
_execute(cx, f, write) ==
    IF cx.state # "open" THEN "error"
    ELSE IF ~f.table THEN "error"
    ELSE IF write /\ cx.mode = "ro" THEN "error"
    ELSE "none"

\* DELETE FROM table WHERE key = ?, and its rowcount.
db_delitem(d, k) == [x \in DOMAIN d \ {k} |-> d[x]]
rowcount(d, k) == IF k \in DOMAIN d THEN 1 ELSE 0

\* The keys and values the shelf hands to the _Database.
StoreKeys == {KEYS_ROW, "n1"}
NoBlob ==
    [kind |-> "none", key |-> << >>, content |-> "", read |-> FALSE,
     map |-> EmptyDict]

\* The orders in which SELECT key FROM table may yield the keys of S.
Orders(S) ==
    { o \in [1..Cardinality(S) -> S] :
        \A m, n \in 1..Cardinality(S) : m # n => o[m] # o[n] }

NoKv ==
    [op |-> "none", flag |-> "", table |-> << >>, key |-> "", value |-> NoBlob,
     err |-> "none", count |-> 0, keys |-> << >>, had |-> FALSE]

\* The handle is open on a table it may write.
Writable == _cx.state = "open" /\ _cx.mode # "ro" /\ file.table

\* open(filename, flag, table=table), with no other _Database open on the
\* path.  `ref` starts from the rows the handle finds.
open(flag, table) ==
    /\ _cx.state # "open"
    /\ LET r == _Database_init([file |-> file, db |-> db], flag, table)
       IN  /\ file' = r.disk.file
           /\ db' = r.disk.db
           /\ _cx' = IF r.err = "none" THEN [state |-> "open", mode |-> r.mode]
                     ELSE [state |-> "none", mode |-> ""]
           /\ ref' = r.disk.db
           /\ kv' = [NoKv EXCEPT !.op = "open", !.flag = flag, !.table = table,
                                 !.err = r.err, !.had = DOMAIN db # {}]
    /\ UNCHANGED catcher_vars

\* _Database.__getitem__
__getitem__(k) ==
    /\ _cx.state \in {"open", "closed"}
    /\ LET e == _execute(_cx, file, FALSE)
       IN  kv' = [NoKv EXCEPT !.op = "get", !.key = k,
                    !.err = IF e # "none" THEN e
                            ELSE IF k \notin DOMAIN db THEN "KeyError" ELSE "none",
                    !.value = IF e = "none" /\ k \in DOMAIN db THEN db[k] ELSE NoBlob,
                    !.had = k \in DOMAIN ref]
    /\ UNCHANGED << db, file, _cx, ref >>
    /\ UNCHANGED catcher_vars

\* _Database.__setitem__
__setitem__(k, v) ==
    /\ _cx.state \in {"open", "closed"}
    /\ LET e == _execute(_cx, file, TRUE)
       IN  /\ db' = IF e = "none" THEN db_setitem(db, k, v) ELSE db
           /\ kv' = [NoKv EXCEPT !.op = "put", !.key = k, !.value = v, !.err = e,
                                 !.had = k \in DOMAIN ref]
    /\ ref' = IF Writable
              THEN [x \in DOMAIN ref \cup {k} |-> IF x = k THEN v ELSE ref[x]]
              ELSE ref
    /\ UNCHANGED << file, _cx >>
    /\ UNCHANGED catcher_vars

\* _Database.__delitem__
__delitem__(k) ==
    /\ _cx.state \in {"open", "closed"}
    /\ LET e == _execute(_cx, file, TRUE)
       IN  /\ db' = IF e = "none" THEN db_delitem(db, k) ELSE db
           /\ kv' = [NoKv EXCEPT !.op = "delete", !.key = k,
                       !.err = IF e # "none" THEN e
                               ELSE IF rowcount(db, k) = 0 THEN "KeyError" ELSE "none",
                       !.had = k \in DOMAIN ref]
    /\ ref' = IF Writable THEN [x \in DOMAIN ref \ {k} |-> ref[x]] ELSE ref
    /\ UNCHANGED << file, _cx >>
    /\ UNCHANGED catcher_vars

\* _Database.__len__
__len__ ==
    /\ _cx.state \in {"open", "closed"}
    /\ LET e == _execute(_cx, file, FALSE)
       IN  kv' = [NoKv EXCEPT !.op = "len", !.err = e,
                    !.count = IF e = "none" THEN Cardinality(DOMAIN db) ELSE 0]
    /\ UNCHANGED << db, file, _cx, ref >>
    /\ UNCHANGED catcher_vars

\* _Database.__iter__, run to its end.
__iter__(order) ==
    /\ _cx.state \in {"open", "closed"}
    /\ LET e == _execute(_cx, file, FALSE)
       IN  kv' = [NoKv EXCEPT !.op = "iter", !.err = e,
                    !.keys = IF e = "none" THEN order ELSE << >>]
    /\ UNCHANGED << db, file, _cx, ref >>
    /\ UNCHANGED catcher_vars

\* _Database.close
db_close ==
    /\ _cx.state \in {"open", "closed"}
    /\ _cx' = [_cx EXCEPT !.state = "closed"]
    /\ kv' = [NoKv EXCEPT !.op = "close", !.had = _cx.state = "closed"]
    /\ UNCHANGED << db, file, ref >>
    /\ UNCHANGED catcher_vars

\* ---------------------------------------------------------- init_transport

\* self.shelf.setdefault("__keys__", {}): the stored index, unpickled, or an
\* empty dict that is written to the shelf.
setdefault_keys(d) ==
    IF KEYS_ROW \in DOMAIN d
    THEN [db |-> d, value |-> UnpickleDict(d[KEYS_ROW])]
    ELSE [db |-> db_setitem(d, KEYS_ROW, PickleDict(EmptyDict)), value |-> EmptyDict]

\* Entering init_transport (dbm_open(db_path, "c"), Shelf, the transport's
\* __init__) followed by the caller's settings of flush_limit, as install
\* does, and of flush_immediately.
init_transport(i, m, fl, fi) ==
    /\ Idle
    /\ pc[i] = "none"
    /\ LET o == _Database_init([file |-> file, db |-> db], "c", Dict)
           r == setdefault_keys(o.disk.db)
       IN  /\ file' = o.disk.file
           /\ db' = r.db
           /\ _keys' = [_keys EXCEPT ![i] = r.value]
    /\ pc' = [pc EXCEPT ![i] = "open"]
    /\ mode' = [mode EXCEPT ![i] = m]
    /\ flush_limit' = [flush_limit EXCEPT ![i] = fl]
    /\ flush_immediately' = [flush_immediately EXCEPT ![i] = fi]
    /\ _waiting_flush' = [_waiting_flush EXCEPT ![i] = << >>]
    /\ atOpen' = [atOpen EXCEPT ![i] = flushed]
    /\ last' = [NoOp EXCEPT !.op = "init_transport", !.inst = i]
    /\ UNCHANGED << tasks, nreq, closed, flushed >>
    /\ UNCHANGED << _cx, ref, kv >>

\* Leaving the block, normally or by an exception of the body: the finally
\* clause runs transport.close().
init_transport_exit(i, exc) ==
    /\ Idle
    /\ pc[i] = "open"
    /\ Closed(i, close(i), "exit", exc)
    /\ pc' = [pc EXCEPT ![i] = "closing"]
    /\ UNCHANGED << mode, flush_limit, flush_immediately, tasks, nreq,
                    atOpen >>
    /\ UNCHANGED store_vars

\* Shelf.__exit__ and _Database.__exit__ close the shelf and the connection.
init_transport_release(i) ==
    /\ pc[i] = "closing"
    /\ pc' = [pc EXCEPT ![i] = "released"]
    /\ last' = [NoOp EXCEPT !.op = "release", !.inst = i]
    /\ UNCHANGED << db, mode, flush_limit, flush_immediately, _keys,
                    _waiting_flush, tasks, nreq, closed, flushed, atOpen >>
    /\ UNCHANGED store_vars

\* ------------------------------------------------------------ behaviour

\* The request and the answer of an earlier run on the same path.
PriorKey == <<"GET", "/a", Body0>>
PriorPair ==
    << [obj |-> NoObj, key |-> PriorKey],
       [content |-> "A", request |-> NoObj, read |-> TRUE] >>

\* The table such a run leaves: a store-mode transport on a new path that
\* handled the one request and left its block (setdefault, flush, close).
PriorTable ==
    LET r == flush_loop(setdefault_keys(EmptyDict).db, EmptyDict, <<PriorPair>>,
                        TRUE, 0, << >>)
    IN  db_setitem(r.db, KEYS_ROW, PickleDict(r.keys))

\* The path holds no table yet, or the table of an earlier run.
Init ==
    /\ db \in {EmptyDict, PriorTable}
    /\ pc = [i \in Inst |-> "none"]
    /\ mode = [i \in Inst |-> ""]
    /\ flush_limit = [i \in Inst |-> None]
    /\ flush_immediately = [i \in Inst |-> FALSE]
    /\ _keys = [i \in Inst |-> EmptyDict]
    /\ _waiting_flush = [i \in Inst |-> << >>]
    /\ tasks = {}
    /\ nreq = 0
    /\ closed = [i \in Inst |-> FALSE]
    /\ flushed = [k \in ContentKeys |->
                    IF db = PriorTable /\ k = PriorKey THEN "A" ELSE ""]
    /\ atOpen = [i \in Inst |-> [k \in ContentKeys |-> ""]]
    /\ last = NoOp
    /\ file = IF db = EmptyDict THEN NoFile ELSE [exists |-> TRUE, table |-> TRUE]
    /\ _cx = [state |-> "none", mode |-> ""]
    /\ ref = EmptyDict
    /\ kv = NoKv

\* The requests a transport of mode m is given.
Requests(m) == IF m = "use" THEN ContentKeys ELSE FetchedKeys

\* One transport on the path.
Next ==
    \/ \E m \in ModeType, f \in FlushConfigs : init_transport("a", m, f[1], f[2])
    \/ \E ck \in Requests(mode["a"]) : handle_async_request("a", ck)
    \/ \E t \in tasks, c \in Contents : transport_return(t, c)
    \/ \E t \in tasks : transport_fail(t)
    \/ \E t \in tasks : cancel(t)
    \/ \E t \in tasks : store_requests(t)
    \/ flush_call("a")
    \/ close_call("a")
    \/ \E exc \in BOOLEAN : init_transport_exit("a", exc)
    \/ init_transport_release("a")

Spec == Init /\ [][Next]_vars

\* Two transports on the same path, as init_transport leaves them (no
\* threshold, no immediate flush), "a" opened first.
NextShared ==
    \/ \E i \in Inst, m \in ModeType \ {"passive"} :
           /\ i = "b" => pc["a"] # "none"
           /\ init_transport(i, m, None, FALSE)
    \/ \E i \in Inst, ck \in FetchedKeys : handle_async_request(i, ck)
    \/ \E t \in tasks, c \in Contents : transport_return(t, c)
    \/ \E t \in tasks : store_requests(t)
    \/ \E i \in Inst : flush_call(i)
    \/ \E i \in Inst : init_transport_exit(i, FALSE)
    \/ \E i \in Inst : init_transport_release(i)

SpecShared == Init /\ [][NextShared]_vars

\* The values put under the keys of StoreKeys.
Blobs == { PickleDict(EmptyDict), Pickle(PriorPair) }

\* The _Database alone: one handle at a time on the path.
NextStore ==
    \/ \E flag \in Flags, table \in TableNames : open(flag, table)
    \/ \E k \in StoreKeys : __getitem__(k)
    \/ \E k \in StoreKeys, v \in Blobs : __setitem__(k, v)
    \/ \E k \in StoreKeys : __delitem__(k)
    \/ __len__
    \/ \E order \in Orders(DOMAIN db) : __iter__(order)
    \/ db_close

SpecStore == Init /\ [][NextStore]_vars

\* What a caller can pass as `mode`: the annotation ModeType is not enforced
\* at run time, so any string reaches __init__; "record" stands for the
\* strings outside the four literals.
AnyMode == ModeType \cup {"record"}

\* One transport constructed with any string as its mode, left as
\* init_transport leaves it.
NextAnyMode ==
    \/ \E m \in AnyMode : init_transport("a", m, None, FALSE)
    \/ \E ck \in Requests(mode["a"]) : handle_async_request("a", ck)
    \/ \E t \in tasks, c \in Contents : transport_return(t, c)
    \/ \E t \in tasks : store_requests(t)
    \/ init_transport_exit("a", FALSE)
    \/ init_transport_release("a")

SpecAnyMode == Init /\ [][NextAnyMode]_vars

\* ------------------------------------------------------------ properties

\* The operation recorded in `last` is a call of handle_async_request by a
\* transport of mode m that has returned or raised.
Dispatched(m) ==
    /\ last.op = "handle_async_request"
    /\ last.inst \in Inst
    /\ mode[last.inst] = m

\* A lookup of content key k in index ks and table d, as find_request does it.
LookupIn(ks, d, k) == find_request(ks, d, TRUE, [obj |-> NoObj, key |-> k])

\* The lookup through transport i.
Lookup(i, k) == LookupIn(_keys[i], db, k)

\* C1: once a store-mode transport has dispatched R and flush() has
\* returned, a use-mode transport opened on the same path afterwards
\* answers a request with the same method, URL and body with a response
\* equal to the one fetched.  (atOpen is what flushes had written when the
\* use-mode transport was constructed; the antecedent leaves out keys a
\* flush has rewritten since.)
RoundTripAfterFlush ==
    (/\ Dispatched("use")
     /\ ShelfOpen(last.inst)
     /\ atOpen[last.inst][last.request.key] # ""
     /\ atOpen[last.inst][last.request.key] = flushed[last.request.key])
    => /\ last.err = "none"
       /\ last.response.read
       /\ last.response.content = flushed[last.request.key]

\* C2: on every cache hit (use mode, or hybrid mode on a hit) the response
\* handle_async_request returns is bound to the request object the caller
\* passed in, not to the request stored with the entry.
HitBoundToLiveRequest ==
    (/\ Dispatched("use") \/ Dispatched("hybrid")
     /\ last.err = "none"
     /\ last.fetched = 0)
    => /\ last.response.request = last.request.obj
       /\ last.response.request # StoredCopy

\* The pairs of batch B that overwrite: their content key is in index ks
\* already, or an earlier pair of B has it.
Overwrites(B, ks) ==
    { n \in 1..Len(B) :
        \/ B[n][1].key \in DOMAIN ks
        \/ \E m \in 1..(n - 1) : B[m][1].key = B[n][1].key }

\* C3: last write wins.  Whenever a flush on an open shelf has consumed its
\* batch, a lookup of each key of the batch finds the payload of the last
\* pair queued for that key; every overwriting pair produced one warning,
\* and the flush raised nothing.
LastWriteWins ==
    [][ (/\ last' # last
         /\ last'.ran
         /\ last'.inst \in Inst
         /\ pc'[last'.inst] \in {"open", "closing"})
        => LET i == last'.inst
               B == last'.batch
           IN  /\ last'.err = "none"
               /\ Len(last'.warned) = Cardinality(Overwrites(B, _keys[i]))
               /\ \A n \in 1..Len(B) :
                     /\ LookupIn(_keys'[i], db', B[n][1].key).err = "none"
                     /\ LookupIn(_keys'[i], db', B[n][1].key).response.content
                            = LastContent(B, B[n][1].key, "")
      ]_vars

\* C3 witness: one flush consumed two pairs with the same key and different
\* payloads, and warned.
LastWriteWinsWitness ==
    /\ last.ran
    /\ last.err = "none"
    /\ Len(last.warned) > 0
    /\ \E m, n \in 1..Len(last.batch) :
          /\ m < n
          /\ last.batch[m][1].key = last.batch[n][1].key
          /\ last.batch[m][2].content # last.batch[n][2].content

\* C4: the table holds at most one cache entry per ContentKey: the number
\* of cache entries never exceeds the number of distinct ContentKeys that
\* flushes have persisted.
OneEntryPerKey ==
    Cardinality(Entries(db)) <= Cardinality({ k \in ContentKeys : flushed[k] # "" })

\* C5: after store_requests appended a pair, a flush ran in that call iff
\* flush_immediately is set or flush_limit is not None and the buffer has
\* reached it.  With a threshold N the N-th enqueue persists all N pairs
\* and the buffer holds fewer than N pairs when the call has returned;
\* without a flush the table is as it was.
FlushTrigger ==
    [][ (last' # last /\ last'.enq /\ last'.inst \in Inst)
        => LET i == last'.inst
               n == Len(_waiting_flush[i]) + 1
               fl == flush_limit[i]
               due == flush_immediately[i] \/ (fl # None /\ n >= fl)
           IN  /\ last'.ran <=> due
               /\ ~due => /\ db' = db
                          /\ Len(_waiting_flush'[i]) = n
               /\ (due /\ last'.err = "none")
                     => /\ _waiting_flush'[i] = << >>
                        /\ Len(last'.batch) = n
                        /\ Cardinality(Entries(db')) = Cardinality(Entries(db)) + n
                        /\ (~flush_immediately[i] => n = fl)
               /\ (fl # None /\ fl >= 1) => Len(_waiting_flush'[i]) < fl
      ]_vars

\* C5 witness: with flush_limit = 2 the second enqueue flushed both pairs.
FlushTriggerWitness ==
    /\ last.enq
    /\ last.ran
    /\ last.err = "none"
    /\ flush_limit[last.inst] = 2
    /\ Len(last.batch) = 2
    /\ _waiting_flush[last.inst] = << >>

\* C6: passive mode never mutates the cache.  No step of a dispatch in
\* passive mode changes the table, the index or the buffer; the call has
\* asked the transport once when it ends, and what it returns is the
\* transport's response.
PassiveNeverMutates ==
    [][ (/\ last' # last
         /\ last'.op \in {"await transport", "handle_async_request"}
         /\ last'.inst \in Inst
         /\ mode[last'.inst] = "passive")
        => /\ db' = db
           /\ _keys' = _keys
           /\ _waiting_flush' = _waiting_flush
           /\ last'.op = "handle_async_request"
                 => /\ last'.fetched = 1
                    /\ ~last'.enq
                    /\ last'.err \in {"none", "TransportError"}
                    /\ last'.err = "none"
                          => /\ last'.response.content \in Contents
                             /\ last'.response.request # StoredCopy
      ]_vars

\* C6 witness: a passive transport on a populated table returned a live
\* response for a request the table holds.
PassiveNeverMutatesWitness ==
    /\ Dispatched("passive")
    /\ last.err = "none"
    /\ last.fetched = 1
    /\ last.request.key = PriorKey
    /\ db = PriorTable

\* C7: a request that misses in hybrid mode is fetched and queued as store
\* mode queues it, and the flush that consumes the queue adds exactly one
\* entry per pair: the pickled (request, response) pair.
HybridMissStores ==
    [][ (/\ last' # last
         /\ last'.inst \in Inst
         /\ mode[last'.inst] = "hybrid")
        => LET i == last'.inst
               pair == <<last'.request, last'.response>>
               new == Entries(db') \ Entries(db)
           IN  /\ (/\ last'.op = "handle_async_request"
                   /\ last'.fetched = 1
                   /\ last'.err = "none")
                     => /\ last'.enq
                        /\ last'.response.read
                        /\ IF last'.ran
                           THEN last'.batch = Append(_waiting_flush[i], pair)
                           ELSE _waiting_flush'[i] = Append(_waiting_flush[i], pair)
               /\ (last'.ran /\ last'.err = "none")
                     => /\ Cardinality(new) = Len(last'.batch)
                        /\ \A n \in 1..Len(last'.batch) :
                              \E name \in new : db'[name] = Pickle(last'.batch[n])
                        /\ \A name \in new :
                              \E n \in 1..Len(last'.batch) :
                                 db'[name] = Pickle(last'.batch[n])
      ]_vars

\* C7 witness: a hybrid transport flushed the one pair of a missed request.
HybridMissStoresWitness ==
    /\ last.inst \in Inst
    /\ mode[last.inst] = "hybrid"
    /\ last.ran
    /\ last.err = "none"
    /\ Len(last.batch) = 1
    /\ Lookup(last.inst, last.batch[1][1].key).response.content
          = last.batch[1][2].content

\* The diagnostic the claim describes for a miss on content key k: the URL
\* alone for an empty body, the URL and the body for a body of at most 20
\* bytes, the URL and the length of the body beyond that.
TieredDiagnostic(arg, k) ==
    IF Len(k[3]) = 0 THEN Len(arg) = 1 /\ arg[1] = k[2]
    ELSE IF Len(k[3]) <= 20 THEN Len(arg) \in {2, 3} /\ arg[Len(arg)] = k[3]
    ELSE Len(arg) = 2 /\ arg[1] = k[2] /\ arg[2] = Len(k[3])

\* C8: a use-mode miss fails without calling the transport, and the
\* diagnostic it carries is tiered by the request body: generic for an
\* empty body, the body itself up to 20 bytes, only its length beyond.
UseMissTiered ==
    (Dispatched("use") /\ last.err = "KeyError")
    => /\ last.fetched = 0
       /\ TieredDiagnostic(last.arg, last.request.key)

\* Every pair of queue q is retrievable through the key index stored in
\* table d: the index row maps the pair's key to a row holding the payload
\* of the last pair of q with that key.
Persisted(q, d) ==
    /\ KEYS_ROW \in DOMAIN d
    /\ \A n \in 1..Len(q) :
          LET k == q[n][1].key
              idx == UnpickleDict(d[KEYS_ROW])
          IN  /\ k \in DOMAIN idx
              /\ idx[k] \in DOMAIN d
              /\ Unpickle(d[idx[k]])[2].content = LastContent(q, k, "")

CloseIdempotent ==
    (last.op \in {"close", "exit"} /\ last.again)
    => /\ last.err = "none"
       /\ last.batch = << >>
       /\ last.writes = 0

\* C11: a mode outside store, use, hybrid, passive is refused when the
\* transport is constructed: no transport exists with such a mode, and no
\* request is looked up, fetched or enqueued under one.
UnknownModeRejected ==
    /\ \A i \in Inst : pc[i] # "none" => mode[i] \in ModeType
    /\ (last.inst \in Inst /\ last.op # "init_transport")
          => mode[last.inst] \in ModeType

\* C12: when the transport raises in store, passive or hybrid mode (on a
\* miss), the call has asked the transport exactly once, the exception
\* leaves handle_async_request as it is, and neither the step that sent the
\* request nor the step that failed changes the buffer, the index or the
\* table.
TransportFailurePropagates ==
    [][ (last' # last /\ last'.inst \in Inst)
        => /\ last'.err = "TransportError"
                 => /\ mode[last'.inst] \in {"store", "passive", "hybrid"}
                    /\ last'.op = "handle_async_request"
                    /\ last'.fetched = 1
                    /\ last'.response = NoResponse
                    /\ ~last'.enq
                    /\ ~last'.ran
                    /\ db' = db
                    /\ _keys' = _keys
                    /\ _waiting_flush' = _waiting_flush
           /\ last'.op = "await transport"
                 => /\ last'.fetched = 0
                    /\ db' = db
                    /\ _keys' = _keys
                    /\ _waiting_flush' = _waiting_flush
      ]_vars

\* C12 witness: a hybrid transport with one pair queued missed a second
\* request and the transport failed: the pair is still queued.
TransportFailureWitness ==
    /\ Dispatched("hybrid")
    /\ last.err = "TransportError"
    /\ last.fetched = 1
    /\ Len(_waiting_flush[last.inst]) = 1
    /\ _waiting_flush[last.inst][1][1].key # last.request.key

\* The step recorded in `last` is the lookup of a use or hybrid transport
\* on an open shelf: it returned the stored response, raised, or (hybrid)
\* went on to the network.
LookedUp ==
    /\ last.inst \in Inst
    /\ mode[last.inst] \in {"use", "hybrid"}
    /\ ShelfOpen(last.inst)
    /\ \/ last.op = "await transport"
       \/ last.op = "handle_async_request" /\ last.fetched = 0

\* The lookup recorded in `last` was a hit.
Hit == last.op = "handle_async_request" /\ last.err = "none"

\* C13: with two live transports on one path, a lookup in one finds exactly
\* what has been flushed by either at that time: a key flushed since the
\* looking transport was constructed is a hit, a key no flush has written
\* is a miss.
CrossInstanceVisibility ==
    (/\ LookedUp
     /\ \A j \in Inst : ShelfOpen(j)
     /\ atOpen[last.inst][last.request.key] = "")
    => (Hit <=> flushed[last.request.key] # "")

\* C14: every run of flush (called directly, from store_requests or from
\* close) ends with the buffer drained completely or not at all, never
\* with some of the queued pairs removed and others left; a flush that
\* returns has written one row per pair; a call of flush on an empty
\* buffer changes nothing and logs nothing.
CompleteDrain ==
    [][ (last' # last /\ last'.ran /\ last'.inst \in Inst)
        => LET i == last'.inst
               B == last'.batch
               new == Entries(db') \ Entries(db)
           IN  /\ ~(B # << >> /\ _waiting_flush'[i] # << >>)
               /\ last'.err = "none"
                     => /\ _waiting_flush'[i] = << >>
                        /\ Cardinality(new) = Len(B)
                        /\ \A n \in 1..Len(B) :
                              \E name \in new : db'[name] = Pickle(B[n])
               /\ (last'.op = "flush" /\ _waiting_flush[i] = << >>)
                     => /\ db' = db
                        /\ _keys' = _keys
                        /\ last'.info = 0
                        /\ last'.warned = << >>
      ]_vars

\* C15: every pair in a buffer, and every pair a flush takes from one, has
\* a response whose body was read to the end; a dispatch that fails or is
\* cancelled at the transport call or at the body read queues nothing.
MaterializedBeforeEnqueue ==
    [][ last' # last
        => /\ \A i \in Inst : \A n \in 1..Len(_waiting_flush'[i]) :
                  _waiting_flush'[i][n][2].read
           /\ \A n \in 1..Len(last'.batch) : last'.batch[n][2].read
           /\ last'.enq => last'.err \notin {"TransportError", "CancelledError"}
           /\ last'.err \in {"TransportError", "CancelledError"}
                 => /\ _waiting_flush' = _waiting_flush
                    /\ db' = db
      ]_vars

\* C15 witness: a call was cancelled inside response.aread(), with the
\* response received and its body unread, while the pair of another call
\* sits in the buffer.
MaterializedBeforeEnqueueWitness ==
    /\ last.op = "cancel"
    /\ last.response.content # ""
    /\ ~last.response.read
    /\ Len(_waiting_flush[last.inst]) = 1
    /\ _waiting_flush[last.inst][1][1].obj # last.request.obj

\* C18: a lookup never consults the buffer.  The lookup of a use or hybrid
\* transport hits exactly when the key was written by a flush that has
\* completed or was in the store when the transport was constructed; a
\* key that is only queued misses, and in hybrid mode the miss goes to the
\* network and queues a further pair.
BufferNotConsulted ==
    [][ (/\ last' # last
         /\ last'.inst \in Inst
         /\ mode[last'.inst] \in {"use", "hybrid"}
         /\ pc[last'.inst] = "open")
        => LET i == last'.inst
               k == last'.request.key
               hit == last'.op = "handle_async_request" /\ last'.err = "none"
                         /\ last'.fetched = 0
           IN  /\ (\/ last'.op = "await transport"
                   \/ last'.op = "handle_async_request" /\ last'.fetched = 0)
                     => /\ hit <=> flushed[k] # ""
                        /\ hit => last'.response.content = flushed[k]
                        /\ ~hit => IF mode[i] = "hybrid"
                                   THEN last'.op = "await transport"
                                   ELSE last'.err = "KeyError"
               /\ (last'.op = "handle_async_request" /\ last'.fetched = 1
                      /\ last'.err = "none" /\ ~last'.ran)
                     => _waiting_flush'[i] =
                           Append(_waiting_flush[i], <<last'.request, last'.response>>)
      ]_vars

\* C18 witness: a hybrid transport dispatched the same request twice
\* before any flush; both calls went to the network and both pairs are
\* queued.
BufferNotConsultedWitness ==
    /\ Dispatched("hybrid")
    /\ last.fetched = 1
    /\ last.enq
    /\ Len(_waiting_flush[last.inst]) = 2
    /\ _waiting_flush[last.inst][1][1].key = _waiting_flush[last.inst][2][1].key
    /\ _waiting_flush[last.inst][1][1].obj < _waiting_flush[last.inst][2][1].obj
    /\ flushed[last.request.key] = ""

\* The key index stored in table d.
StoredIndex(d) ==
    IF KEYS_ROW \in DOMAIN d THEN UnpickleDict(d[KEYS_ROW]) ELSE EmptyDict

\* C19: with two transports on one path, no step takes out of the stored
\* key index an entry that is in it, and once both have left their blocks
\* every key either of them flushed is found through the stored index, as
\* a transport opened afterwards would find it.
SharedIndexKeepsAll ==
    /\ (\A i \in Inst : pc[i] = "released")
          => \A k \in ContentKeys :
                flushed[k] # ""
                  => /\ LookupIn(StoredIndex(db), db, k).err = "none"
                     /\ LookupIn(StoredIndex(db), db, k).response.content = flushed[k]
    /\ (last.op = "exit" /\ last.err = "none")
          => \A k \in ContentKeys :
                flushed[k] # "" /\ (\E j \in Inst : closed[j] /\ k \in DOMAIN _keys[j])
                  => k \in DOMAIN StoredIndex(db)

\* C16: on an open, writable store the _Database is the map its puts and
\* deletes describe.  get returns the value of the last put of the key not
\* followed by a delete and raises KeyError otherwise; put on a key that is
\* present replaces the value and adds no row; delete of an absent key
\* raises KeyError and changes nothing; no operation on a key changes
\* another key; len is the number of keys present and iteration yields each
\* of them once.
StoreIsMap ==
    [][ (kv' # kv /\ Writable /\ kv'.op \in {"get", "put", "delete", "len", "iter"})
        => LET k == kv'.key
               others == (DOMAIN db \cup DOMAIN db') \ {k}
           IN  /\ db' = ref'
               /\ kv'.op = "get"
                     => /\ db' = db
                        /\ IF k \in DOMAIN ref
                           THEN kv'.err = "none" /\ kv'.value = ref[k]
                           ELSE kv'.err = "KeyError"
               /\ kv'.op = "put"
                     => /\ kv'.err = "none"
                        /\ k \in DOMAIN db' /\ db'[k] = kv'.value
                        /\ Cardinality(DOMAIN db') =
                              Cardinality(DOMAIN db) + (IF k \in DOMAIN ref THEN 0 ELSE 1)
                        /\ \A x \in others :
                              x \in DOMAIN db /\ x \in DOMAIN db' /\ db'[x] = db[x]
               /\ kv'.op = "delete"
                     => /\ IF k \in DOMAIN ref
                           THEN kv'.err = "none" /\ k \notin DOMAIN db'
                           ELSE kv'.err = "KeyError" /\ db' = db
                        /\ \A x \in others :
                              x \in DOMAIN db /\ x \in DOMAIN db' /\ db'[x] = db[x]
               /\ kv'.op = "len"
                     => /\ kv'.err = "none"
                        /\ kv'.count = Cardinality(DOMAIN ref)
                        /\ db' = db
               /\ kv'.op = "iter"
                     => /\ kv'.err = "none"
                        /\ Len(kv'.keys) = Cardinality(DOMAIN ref)
                        /\ { kv'.keys[n] : n \in 1..Len(kv'.keys) } = DOMAIN ref
                        /\ db' = db
      ]_vars

\* C16 witness: a put on a key that was present replaced its value while
\* the other key of the table kept its own.
StoreIsMapWitness ==
    /\ Writable
    /\ kv.op = "put"
    /\ kv.had
    /\ kv.err = "none"
    /\ DOMAIN db = StoreKeys
    /\ db[kv.key] = kv.value
    /\ \E x \in StoreKeys : x # kv.key /\ db[x] # kv.value

\* C17: the flag decides what open does to the store.  "r", "w" and "c"
\* leave every row as it is; "n" yields an empty table whatever was there;
\* "r" and "w" on a path without a file fail and create none; a handle
\* opened with "r" refuses put and delete; any other flag is refused.
OpenFlags ==
    [][ kv' # kv
        => /\ (kv'.op = "open" /\ kv'.flag \in {"r", "w", "c"})
                 => /\ db' = db
                    /\ file.exists => file'.exists
                    /\ file.table => file'.table
           /\ (kv'.op = "open" /\ kv'.flag = "n")
                 => /\ db' = EmptyDict
                    /\ file'.exists
                    /\ _build_queries(kv'.table) = "none"
                          => /\ kv'.err = "none"
                             /\ file' = [exists |-> TRUE, table |-> TRUE]
                             /\ _cx'.state = "open"
           /\ (kv'.op = "open" /\ kv'.flag = "c" /\ kv'.err = "none")
                 => /\ file' = [exists |-> TRUE, table |-> TRUE]
                    /\ _cx'.state = "open"
           /\ (kv'.op = "open" /\ kv'.flag \in {"r", "w"} /\ ~file.exists)
                 => /\ kv'.err = "error"
                    /\ file' = file
                    /\ db' = db
                    /\ _cx'.state # "open"
           /\ (kv'.op = "open" /\ kv'.flag \notin {"r", "w", "c", "n"})
                 => /\ kv'.err = "ValueError"
                    /\ file' = file
                    /\ db' = db
                    /\ _cx'.state # "open"
           /\ (kv'.op \in {"put", "delete"} /\ _cx.state = "open" /\ _cx.mode = "ro")
                 => /\ kv'.err = "error"
                    /\ db' = db
      ]_vars

\* C17 witness: a store that held rows was opened with "n" and is empty.
OpenFlagsWitness ==
    /\ kv.op = "open"
    /\ kv.flag = "n"
    /\ kv.err = "none"
    /\ kv.had
    /\ db = EmptyDict
    /\ _cx.state = "open"

\* C20: an open that fails with a configuration error (a flag outside the
\* four, a table name that is no identifier or starts with "sqlite_")
\* leaves the file and the rows of the store as they were.
FailedOpenChangesNothing ==
    [][ (kv' # kv /\ kv'.op = "open" /\ kv'.err = "ValueError")
        => /\ file' = file
           /\ db' = db
      ]_vars

====
